---- MODULE Spec2Model ----
(***************************************************************************)
(* Model of waybar::util::AudioBackend (audio_backend.cpp): the PulseAudio *)
(* client that keeps a snapshot of the current sink / source and issues    *)
(* volume and mute requests.                                               *)
(*                                                                         *)
(* Two threads are modelled.  The loop thread (pa_threaded_mainloop) runs  *)
(* every callback with the mainloop lock held, so a callback is one atomic *)
(* action that is enabled only while the caller thread does not hold the   *)
(* lock.  The caller thread runs the mutation entry points and the         *)
(* destructor; each of its unsynchronised memory accesses is a step of its *)
(* own, so that the loop thread can run between them.                      *)
(***************************************************************************)
EXTENDS Integers, Sequences, FiniteSets

(***************************************************************************)
(* Bounds of the model.                                                    *)
(***************************************************************************)
\* number of pa_context handles the model lets the backend create
MaxContexts == 3

(***************************************************************************)
(* PulseAudio constants used by the code.                                  *)
(***************************************************************************)
PA_VOLUME_NORM == 65536
PA_VOLUME_MAX == 2147483647
PA_CHANNELS_MAX == 32
\* pa_sw_volume_from_dB(+11.0)
PA_VOLUME_UI_MAX == 99957

(***************************************************************************)
(* pa_cvolume: a channel count and one native value per channel.           *)
(***************************************************************************)
\* pa_cvolume_init: no channels, no valid value
CVolumeInit == [channels |-> 0, values |-> << >>]

\* pa_cvolume with every one of n channels at native value v
CVolumeUniform(n, v) == [channels |-> n, values |-> [k \in 1..n |-> v]]

pa_channels_valid(n) == n > 0 /\ n <= PA_CHANNELS_MAX

pa_cvolume_valid(cv) ==
    /\ pa_channels_valid(cv.channels)
    /\ \A k \in 1..cv.channels : cv.values[k] <= PA_VOLUME_MAX

RECURSIVE SumValues(_, _)
SumValues(vals, k) == IF k = 0 THEN 0 ELSE vals[k] + SumValues(vals, k - 1)

\* pa_cvolume_avg: the integer mean of the channels (PA_VOLUME_MUTED, 0,
\* for a structure that is not valid)
pa_cvolume_avg(cv) ==
    IF pa_cvolume_valid(cv)
    THEN SumValues(cv.values, cv.channels) \div cv.channels
    ELSE 0

\* std::round(float(avg) / float{PA_VOLUME_NORM} * 100.0F), half away from
\* zero.  avg / 65536 is exact in a float and avg * 100 is a multiple of 4,
\* so the float product is never rounded across a .5 boundary for the
\* native values used here (below 1000 percent).
VolumePercentMutTrunc(avg) == (avg * 100) \div PA_VOLUME_NORM
VolumePercent(avg) == (2 * avg * 100 + PA_VOLUME_NORM) \div (2 * PA_VOLUME_NORM)

\* pa_volume_t vol = volume * (double(PA_VOLUME_NORM) / 100): truncation
\* of percent * 655.36
PercentToNative(p) == (p * PA_VOLUME_NORM) \div 100

(***************************************************************************)
(* The server's devices and the configured ignore list.                    *)
(***************************************************************************)
SinkDevices ==
    { [name |-> "X", description |-> "Speakers", index |-> 1,
       monitor |-> "X.monitor", port |-> "analog-output", ff |-> "speaker"],
      [name |-> "Y", description |-> "Headset", index |-> 2,
       monitor |-> "bluez_output.Y.monitor", port |-> "NULL", ff |-> "NULL"],
      [name |-> "M", description |-> "Monitor of X", index |-> 3,
       monitor |-> "M.monitor", port |-> "analog-output", ff |-> "NULL"] }

SinkNames == { dev.name : dev \in SinkDevices }

\* ignored_sinks_ as filled by setIgnoredSinks before the backend is used
ignored_sinks_ == { "Monitor of X" }

SinkStates == { "RUNNING", "IDLE", "SUSPENDED" }

\* channel volumes the server reports: 33% on each of two channels, three
\* unequal channels whose mean is 50%, and a structure that
\* pa_cvolume_valid rejects
SinkVolumes ==
    { CVolumeUniform(2, PercentToNative(33)),
      [channels |-> 3,
       values |-> << PercentToNative(50) - 1000, PercentToNative(50),
                     PercentToNative(50) + 1000 >>],
      CVolumeInit }

\* a pa_sink_info delivered to sinkInfoCb; isNull is the i == nullptr call
\* that ends a list
NullInfo == [isNull |-> TRUE]

SinkInfos ==
    { [isNull |-> FALSE, name |-> dev.name, description |-> dev.description,
       index |-> dev.index, monitor_source_name |-> dev.monitor,
       active_port |-> dev.port, form_factor |-> dev.ff,
       state |-> st, volume |-> cv, mute |-> m] :
        dev \in SinkDevices, st \in SinkStates, cv \in SinkVolumes,
        m \in BOOLEAN }

SourceDevices ==
    { [name |-> "S", description |-> "Microphone", index |-> 1,
       port |-> "analog-input"],
      [name |-> "T", description |-> "Webcam", index |-> 2, port |-> "NULL"] }

SourceNames == { dev.name : dev \in SourceDevices }

SourceVolumes == { CVolumeUniform(1, PercentToNative(40)) }

SourceInfos ==
    { [isNull |-> FALSE, name |-> dev.name, description |-> dev.description,
       index |-> dev.index, active_port |-> dev.port,
       volume |-> cv, mute |-> m] :
        dev \in SourceDevices, cv \in SourceVolumes, m \in BOOLEAN }

\* a pa_server_info
ServerInfos ==
    { [default_sink_name |-> s, default_source_name |-> r] :
        s \in SinkNames, r \in SourceNames }

(***************************************************************************)
(* State.                                                                  *)
(***************************************************************************)
VARIABLES
    \* connection manager
    context_,              \* the backend's pa_context handle, 0 is nullptr
    ctxState,              \* pa_context_get_state of every handle
    loopRunning,           \* the mainloop thread dispatches callbacks
    thrown,                \* an exception left a callback of the loop thread
    \* device state resolver (sink)
    current_sink_name_, default_sink_name, default_sink_running_,
    current_sink_running_,
    \* snapshot of the current sink
    pa_volume_, volume_, sink_idx_, muted_, desc_, monitor_, port_name_,
    form_factor_,
    \* snapshot of the current source
    default_source_name_, source_volume_, source_idx_, source_muted_,
    source_desc_, source_port_name_,
    \* caller thread
    ui,                    \* position and locals of the running entry point
    lock,                  \* holder of the mainloop lock: "none" or "ui"
    dtor,                  \* progress of ~AudioBackend
    \* observation of the last step
    last,                  \* the operation of the last step and its input
    cbCalls,               \* on_updated_cb_ invocations of the last step
    reqs,                  \* server requests issued by the last step
    racy,                  \* fields the last caller step touched unlocked
    inflight,              \* set-volume requests the server has not answered
    idxFresh               \* sink_idx_ / source_idx_ was stored on this connection

connVars == << context_, ctxState, loopRunning, thrown >>
resolverVars == << current_sink_name_, default_sink_name,
                   default_sink_running_, current_sink_running_ >>
sinkVars == << pa_volume_, volume_, sink_idx_, muted_, desc_, monitor_,
               port_name_, form_factor_ >>
sourceVars == << default_source_name_, source_volume_, source_idx_,
                 source_muted_, source_desc_, source_port_name_ >>
uiVars == << ui, lock, dtor >>
obsVars == << last, cbCalls, reqs, racy, inflight, idxFresh >>

vars == << connVars, resolverVars, sinkVars, sourceVars, uiVars, obsVars >>

Contexts == 1..MaxContexts

Idle == [pc |-> "idle"]

(***************************************************************************)
(* The state after AudioBackend::AudioBackend returned: the mainloop runs  *)
(* and the first context is connecting.                                    *)
(***************************************************************************)
Init ==
    /\ context_ = 1
    /\ ctxState = [c \in Contexts |-> IF c = 1 THEN "CONNECTING" ELSE "NONE"]
    /\ loopRunning = TRUE
    /\ thrown = FALSE
    /\ current_sink_name_ = ""
    /\ default_sink_name = ""
    /\ default_sink_running_ = FALSE
    /\ current_sink_running_ = FALSE
    /\ pa_volume_ = CVolumeInit
    /\ volume_ = 0
    /\ sink_idx_ = 0
    /\ muted_ = FALSE
    /\ desc_ = ""
    /\ monitor_ = ""
    /\ port_name_ = ""
    /\ form_factor_ = ""
    /\ default_source_name_ = ""
    /\ source_volume_ = 0
    /\ source_idx_ = 0
    /\ source_muted_ = FALSE
    /\ source_desc_ = ""
    /\ source_port_name_ = ""
    /\ ui = Idle
    /\ lock = "none"
    /\ dtor = "none"
    /\ last = [op |-> "Init"]
    /\ cbCalls = 0
    /\ reqs = << >>
    /\ racy = {}
    /\ inflight = {}
    /\ idxFresh = [sink |-> FALSE, source |-> FALSE]

(***************************************************************************)
(* Loop thread.  A callback runs while the mainloop dispatches, that is    *)
(* while the loop runs and the caller thread does not hold the lock.       *)
(***************************************************************************)
LoopDispatch == loopRunning /\ ~thrown /\ lock = "none"

\* replies and subscription events arrive on a connected context only
LoopReady == LoopDispatch /\ context_ # 0 /\ ctxState[context_] = "READY"

\* what a loop-thread step leaves of the caller thread's observation
LoopObs(op, n, rq) ==
    /\ last' = op
    /\ cbCalls' = n
    /\ reqs' = rq
    /\ racy' = {}

Request(kind, c, idx) ==
    [kind |-> kind, ctx |-> c, ready |-> ctxState[c] = "READY", idx |-> idx]

(***************************************************************************)
(* sinkInfoCb                                                              *)
(***************************************************************************)
\* the loop over ignored_sinks_ comparing with i->description
IsIgnoredMutNever(i) == FALSE
IsIgnored(i) == i.description \in ignored_sinks_

\* i->state == PA_SINK_RUNNING || i->state == PA_SINK_IDLE
SinkActive(i) == i.state = "RUNNING" \/ i.state = "IDLE"

\* the value stored in default_sink_running_
DefaultSinkRunning(i) == default_sink_name = i.name /\ SinkActive(i)

\* if (i->name != default_sink_name && !default_sink_running_) return;
NotDefaultMutStoredFlag(i) ==
    i.name # default_sink_name /\ ~default_sink_running_
NotDefault(i) == i.name # default_sink_name /\ ~DefaultSinkRunning(i)

\* current_sink_running_ after the refresh from the current sink's state
RunningRefreshed(i) ==
    IF current_sink_name_ = i.name THEN SinkActive(i) ELSE current_sink_running_

\* the sink is adopted as the current one
Adopted(i) == ~RunningRefreshed(i) /\ SinkActive(i)

\* current_sink_name_ when the copy is decided
NameResolved(i) == IF Adopted(i) THEN i.name ELSE current_sink_name_

\* if (backend->current_sink_name_ == i->name): the fields are copied
Copied(i) == NameResolved(i) = i.name

\* i->active_port != nullptr ? i->active_port->name : "Unknown"
PortName(i) == IF i.active_port = "NULL" THEN "Unknown" ELSE i.active_port

\* pa_proplist_gets(i->proplist, PA_PROP_DEVICE_FORM_FACTOR) or ""
FormFactor(i) == IF i.form_factor = "NULL" THEN "" ELSE i.form_factor

\* backend->on_updated_cb_(): one more invocation in this callback
on_updated_cb_MutNone(n) == n
on_updated_cb_(n) == n + 1

SinkCopy(i) ==
    /\ IF pa_cvolume_valid(i.volume)
       THEN /\ pa_volume_' = i.volume
            /\ sink_idx_' = i.index
            /\ idxFresh' = [idxFresh EXCEPT !.sink = TRUE]
            /\ volume_' = VolumePercent(pa_cvolume_avg(i.volume))
       ELSE /\ pa_volume_' = CVolumeInit
            /\ volume_' = 0
            /\ UNCHANGED << sink_idx_, idxFresh >>
    /\ muted_' = i.mute
    /\ desc_' = i.description
    /\ monitor_' = i.monitor_source_name
    /\ port_name_' = PortName(i)
    /\ form_factor_' = FormFactor(i)

sinkInfoCb(i) ==
    /\ LoopReady
    /\ UNCHANGED << connVars, sourceVars, uiVars, inflight >>
    /\ IF i.isNull
       THEN /\ UNCHANGED << resolverVars, sinkVars, idxFresh >>
            /\ LoopObs([op |-> "sinkInfoCb", i |-> i], 0, << >>)
       ELSE IF IsIgnored(i)
       THEN /\ current_sink_running_' =
                   IF i.name = current_sink_name_ THEN FALSE
                   ELSE current_sink_running_
            /\ UNCHANGED << current_sink_name_, default_sink_name,
                            default_sink_running_, sinkVars, idxFresh >>
            /\ LoopObs([op |-> "sinkInfoCb", i |-> i], 0, << >>)
       ELSE /\ default_sink_running_' = DefaultSinkRunning(i)
            /\ UNCHANGED default_sink_name
            /\ IF NotDefault(i)
               THEN /\ UNCHANGED << current_sink_name_, current_sink_running_,
                                    sinkVars, idxFresh >>
                    /\ LoopObs([op |-> "sinkInfoCb", i |-> i], 0, << >>)
               ELSE /\ current_sink_name_' = NameResolved(i)
                    /\ current_sink_running_' =
                           IF Adopted(i) THEN TRUE ELSE RunningRefreshed(i)
                    /\ IF Copied(i)
                       THEN /\ SinkCopy(i)
                            /\ LoopObs([op |-> "sinkInfoCb", i |-> i],
                                       on_updated_cb_(0), << >>)
                       ELSE /\ UNCHANGED << sinkVars, idxFresh >>
                            /\ LoopObs([op |-> "sinkInfoCb", i |-> i], 0,
                                       << >>)

(***************************************************************************)
(* sourceInfoCb                                                            *)
(***************************************************************************)
sourceInfoCb(i) ==
    /\ LoopReady
    /\ UNCHANGED << connVars, resolverVars, sinkVars, uiVars, inflight,
                    default_source_name_ >>
    /\ IF ~i.isNull /\ default_source_name_ = i.name
       THEN /\ source_volume_' = VolumePercent(pa_cvolume_avg(i.volume))
            /\ source_idx_' = i.index
            /\ idxFresh' = [idxFresh EXCEPT !.source = TRUE]
            /\ source_muted_' = i.mute
            /\ source_desc_' = i.description
            /\ source_port_name_' = PortName(i)
            /\ LoopObs([op |-> "sourceInfoCb", i |-> i], on_updated_cb_(0), << >>)
       ELSE /\ UNCHANGED << source_volume_, source_idx_, source_muted_,
                            source_desc_, source_port_name_, idxFresh >>
            /\ LoopObs([op |-> "sourceInfoCb", i |-> i], 0, << >>)

(***************************************************************************)
(* serverInfoCb                                                            *)
(***************************************************************************)
serverInfoCb(i) ==
    /\ LoopReady
    /\ current_sink_name_' = i.default_sink_name
    /\ default_sink_name' = i.default_sink_name
    /\ default_source_name_' = i.default_source_name
    /\ UNCHANGED << connVars, default_sink_running_, current_sink_running_,
                    sinkVars, source_volume_, source_idx_, source_muted_,
                    source_desc_, source_port_name_, uiVars, inflight,
                    idxFresh >>
    /\ LoopObs([op |-> "serverInfoCb", i |-> i], 0,
               << Request("get_sink_info_list", context_, 0),
                  Request("get_source_info_list", context_, 0) >>)

(***************************************************************************)
(* subscribeCb                                                             *)
(***************************************************************************)
Facilities == { "SERVER", "SINK", "SINK_INPUT", "SOURCE", "SOURCE_OUTPUT" }
EventTypes == { "NEW", "CHANGE", "REMOVE" }
EventIndexes == { 1, 2 }

SubscribeRequests(facility, idx) ==
    IF facility = "SERVER"
    THEN << Request("get_server_info", context_, 0) >>
    ELSE IF facility = "SINK"
    THEN << Request("get_sink_info_by_index", context_, idx) >>
    ELSE IF facility = "SINK_INPUT"
    THEN << Request("get_sink_info_list", context_, 0) >>
    ELSE IF facility = "SOURCE"
    THEN << Request("get_source_info_by_index", context_, idx) >>
    ELSE << Request("get_source_info_list", context_, 0) >>

subscribeCb(facility, operation, idx) ==
    /\ LoopReady
    /\ UNCHANGED << connVars, resolverVars, sinkVars, sourceVars, uiVars,
                    inflight, idxFresh >>
    /\ LoopObs([op |-> "subscribeCb", facility |-> facility,
                operation |-> operation, idx |-> idx], 0,
               IF operation # "CHANGE" THEN << >>
               ELSE SubscribeRequests(facility, idx))

(***************************************************************************)
(* volumeModifyCb: the server's answer to one set-volume request           *)
(***************************************************************************)
\* the index of pa_context_get_sink_info_by_index in volumeModifyCb: the
\* stored index of the current sink when the answer arrives
RefetchIndexMutSubmitted(r) == r.idx
RefetchIndex(r) == sink_idx_

volumeModifyCb(r, success) ==
    /\ LoopReady
    /\ r \in inflight
    /\ r.ctx = context_
    /\ inflight' = inflight \ {r}
    /\ UNCHANGED << connVars, resolverVars, sinkVars, sourceVars, uiVars,
                    idxFresh >>
    /\ LoopObs([op |-> "volumeModifyCb", r |-> r, success |-> success], 0,
               IF success /\ context_ # 0 /\ ctxState[context_] = "READY"
               THEN << Request("get_sink_info_by_index", context_,
                               RefetchIndex(r)) >>
               ELSE << >>)

(***************************************************************************)
(* connectContext and contextStateCb                                       *)
(***************************************************************************)
\* handles created so far
Created == { c \in Contexts : ctxState[c] # "NONE" }

\* PA_CONTEXT_IS_GOOD
IsGood(st) ==
    st \in { "CONNECTING", "AUTHORIZING", "SETTING_NAME", "READY" }

\* pa_context_disconnect(c): a good context becomes TERMINATED, its pending
\* operations are cancelled; any other context is left as it is
Disconnected(states, c) ==
    IF c # 0 /\ IsGood(states[c])
    THEN [states EXCEPT ![c] = "TERMINATED"]
    ELSE states

\* the five classes of pa_context_subscribe
SubscriptionMask == Facilities

\* the next state a connecting context reports
Progress(st) ==
    IF st = "CONNECTING" THEN "AUTHORIZING"
    ELSE IF st = "AUTHORIZING" THEN "SETTING_NAME"
    ELSE "READY"

\* contextStateCb for CONNECTING / AUTHORIZING / SETTING_NAME / READY
contextStateCbProgress ==
    /\ LoopDispatch
    /\ context_ # 0
    /\ ctxState[context_] \in { "CONNECTING", "AUTHORIZING", "SETTING_NAME" }
    /\ ctxState' = [ctxState EXCEPT ![context_] = Progress(@)]
    /\ UNCHANGED << context_, loopRunning, thrown, resolverVars, sinkVars,
                    sourceVars, uiVars, inflight, idxFresh >>
    /\ LoopObs([op |-> "contextStateCb", state |-> Progress(ctxState[context_]),
                c |-> context_], 0,
               IF Progress(ctxState[context_]) = "READY"
               THEN << [kind |-> "get_server_info", ctx |-> context_,
                        ready |-> TRUE, idx |-> 0],
                       [kind |-> "subscribe", ctx |-> context_,
                        ready |-> TRUE, idx |-> 0,
                        mask |-> SubscriptionMask] >>
               ELSE << >>)

\* connectContext called from the PA_CONTEXT_FAILED case: pa_context_new
\* returns a handle or nullptr, pa_context_connect succeeds or fails; the
\* throw leaves contextStateCb, on the loop thread
connectContext(states, allocOk, connectOk) ==
    LET new == Cardinality(Created) + 1 IN
    IF ~allocOk
    THEN [handle |-> 0, states |-> states, threw |-> TRUE]
    ELSE IF ~connectOk
    THEN [handle |-> new, states |-> [states EXCEPT ![new] = "UNCONNECTED"],
          threw |-> TRUE]
    ELSE [handle |-> new, states |-> [states EXCEPT ![new] = "CONNECTING"],
          threw |-> FALSE]

\* contextStateCb for PA_CONTEXT_FAILED: the server dropped the connection
contextStateCbFailed(allocOk, connectOk) ==
    /\ LoopDispatch
    /\ context_ # 0
    /\ IsGood(ctxState[context_])
    /\ Cardinality(Created) < MaxContexts
    /\ LET failed == [ctxState EXCEPT ![context_] = "FAILED"]
           res == connectContext(Disconnected(failed, context_), allocOk,
                                 connectOk)
       IN /\ context_' = res.handle
          /\ ctxState' = res.states
          /\ thrown' = res.threw
          /\ LoopObs([op |-> "contextStateCb", state |-> "FAILED",
                      c |-> context_, allocOk |-> allocOk,
                      connectOk |-> connectOk, tearing |-> dtor # "none"],
                     0, << >>)
    /\ inflight' = {}
    /\ idxFresh' = [sink |-> FALSE, source |-> FALSE]
    /\ UNCHANGED << loopRunning, resolverVars, sinkVars, sourceVars, uiVars >>

(***************************************************************************)
(* Caller thread: the mutation entry points.  The thread is alive while no *)
(* exception has ended the process and the object is not being destroyed.  *)
(***************************************************************************)
CallerRuns == ~thrown /\ dtor = "none"

\* what a caller-thread step that issues no request leaves behind
CallerObs(op, touched) ==
    /\ last' = op
    /\ cbCalls' = 0
    /\ reqs' = << >>
    /\ racy' = IF lock = "ui" THEN {} ELSE touched

\* (context_ == nullptr) || pa_context_get_state(context_) != PA_CONTEXT_READY
NotReady == context_ = 0 \/ ctxState[context_] # "READY"

\* std::clamp(volume, min_volume, max_volume)
ClampMutNoUpper(v, lo, hi) == IF v < lo THEN lo ELSE v
Clamp(v, lo, hi) == IF v < lo THEN lo ELSE IF hi < v THEN hi ELSE v

Min(a, b) == IF a < b THEN a ELSE b

UInt16(x) == x % 65536

\* round(x * volume_tick) for an integer percentage x >= 0
RoundTicks(x) == (2 * x * PA_VOLUME_NORM + 100) \div 200

\* the stored structure is usable
StoredValid == pa_cvolume_valid(pa_volume_) /\ pa_channels_valid(pa_volume_.channels)

\* the structure changeVolume(volume, min_volume, max_volume) submits;
\* valid is the outcome of the test of the stored structure, which is
\* copied after the test
AbsoluteVolume(valid, volume, min_volume, max_volume) ==
    LET vol == PercentToNative(Clamp(volume, min_volume, max_volume))
        n == IF valid THEN pa_volume_.channels ELSE 2
    IN CVolumeUniform(n, vol)

\* change_type == ChangeType::Increase && volume_ < max_volume
IncreaseWantedMutInclusive(change_type, maxv) ==
    change_type = "Increase" /\ volume_ <= maxv
IncreaseWanted(change_type, maxv) == change_type = "Increase" /\ volume_ < maxv

\* change_type == ChangeType::Decrease && volume_ > 0
DecreaseWanted(change_type) == change_type = "Decrease" /\ volume_ > 0

\* the structure changeVolume(change_type, step, max_volume) submits, or
\* "none" when it returns without a request
RelativeVolume(valid, change_type, step, max_volume) ==
    LET maxv == Min(max_volume, UInt16(PA_VOLUME_UI_MAX)) IN
    IF ~valid
    THEN [submit |-> TRUE, cv |-> CVolumeUniform(2, PercentToNative(volume_))]
    ELSE IF IncreaseWanted(change_type, maxv)
    THEN LET change == IF volume_ + step > maxv
                       THEN RoundTicks(maxv - volume_)
                       ELSE RoundTicks(step)
         IN [submit |-> TRUE,
             cv |-> [pa_volume_ EXCEPT !.values =
                        [k \in 1..pa_volume_.channels |->
                            Min(pa_volume_.values[k] + change, PA_VOLUME_MAX)]]]
    ELSE IF DecreaseWanted(change_type)
    THEN LET change == IF volume_ - step < 0
                       THEN RoundTicks(volume_)
                       ELSE RoundTicks(step)
         IN [submit |-> TRUE,
             cv |-> [pa_volume_ EXCEPT !.values =
                        [k \in 1..pa_volume_.channels |->
                            IF pa_volume_.values[k] > change
                            THEN pa_volume_.values[k] - change
                            ELSE 0]]]
    ELSE [submit |-> FALSE, cv |-> CVolumeInit]

\* calls of the entry points the caller makes
AbsoluteCalls == { [volume |-> 50, min_volume |-> 0, max_volume |-> 100] }
RelativeCalls ==
    { [change_type |-> t, step |-> 5, max_volume |-> 100] :
        t \in { "Increase", "Decrease" } }

\* both overloads start with the unlocked readiness test
changeVolumeCheck(op, args) ==
    /\ CallerRuns
    /\ ui.pc = "idle"
    /\ ui' = IF NotReady THEN Idle
             ELSE [pc |-> "validate", op |-> op, args |-> args]
    /\ CallerObs([op |-> op, pc |-> "check", args |-> args,
                  returned |-> NotReady], { "context_" })
    /\ UNCHANGED << connVars, resolverVars, sinkVars, sourceVars, lock, dtor,
                    inflight, idxFresh >>

\* pa_cvolume_valid(&pa_volume_) != 0 && pa_channels_valid(...) != 0: the
\* stored structure is tested, unlocked
changeVolumeValidate ==
    /\ ~thrown
    /\ ui.pc = "validate"
    /\ ui' = [pc |-> "prepare", op |-> ui.op, args |-> ui.args,
              valid |-> StoredValid]
    /\ CallerObs([op |-> ui.op, pc |-> "validate", args |-> ui.args,
                  valid |-> StoredValid], { "pa_volume_" })
    /\ UNCHANGED << connVars, resolverVars, sinkVars, sourceVars, lock, dtor,
                    inflight, idxFresh >>

\* the local pa_volume is computed from pa_volume_ and volume_, unlocked
changeVolumePrepare ==
    /\ ~thrown
    /\ ui.pc = "prepare"
    /\ LET r == IF ui.op = "setVolume"
                THEN [submit |-> TRUE,
                      cv |-> AbsoluteVolume(ui.valid, ui.args.volume,
                                            ui.args.min_volume,
                                            ui.args.max_volume)]
                ELSE RelativeVolume(ui.valid, ui.args.change_type,
                                    ui.args.step, ui.args.max_volume)
       IN /\ ui' = IF r.submit
                   THEN [pc |-> "lock", op |-> ui.op, args |-> ui.args,
                         pa_volume |-> r.cv]
                   ELSE Idle
          /\ CallerObs([op |-> ui.op, pc |-> "prepare", args |-> ui.args,
                        returned |-> ~r.submit],
                       IF ui.op = "setVolume" THEN { "pa_volume_" }
                       ELSE { "pa_volume_", "volume_" })
    /\ UNCHANGED << connVars, resolverVars, sinkVars, sourceVars, lock, dtor,
                    inflight, idxFresh >>

\* pa_threaded_mainloop_lock(mainloop_)
mainloopLock ==
    /\ ~thrown
    /\ ui.pc = "lock"
    /\ lock = "none"
    /\ lock' = "ui"
    /\ ui' = [ui EXCEPT !.pc = "submit"]
    /\ last' = [op |-> ui.op, pc |-> "lock"]
    /\ cbCalls' = 0
    /\ reqs' = << >>
    /\ racy' = {}
    /\ UNCHANGED << connVars, resolverVars, sinkVars, sourceVars, dtor,
                    inflight, idxFresh >>

\* pa_context_set_sink_volume_by_index(context_, sink_idx_, &pa_volume,
\* volumeModifyCb, this): the library accepts it on a READY context only
changeVolumeSubmit ==
    /\ ~thrown
    /\ ui.pc = "submit"
    /\ ui.op \in { "setVolume", "stepVolume" }
    /\ ui' = [pc |-> "unlock", op |-> ui.op]
    /\ last' = [op |-> ui.op, pc |-> "submit", args |-> ui.args]
    /\ cbCalls' = 0
    /\ reqs' = << [kind |-> "set_sink_volume_by_index", ctx |-> context_,
                   ready |-> ~NotReady, idx |-> sink_idx_,
                   volume |-> ui.pa_volume] >>
    /\ racy' = IF lock = "ui" THEN {} ELSE { "context_", "sink_idx_" }
    /\ inflight' = IF NotReady THEN inflight
                   ELSE inflight \cup { [ctx |-> context_, idx |-> sink_idx_] }
    /\ UNCHANGED << connVars, resolverVars, sinkVars, sourceVars, lock, dtor,
                    idxFresh >>

\* pa_threaded_mainloop_unlock(mainloop_) and return
mainloopUnlock ==
    /\ ~thrown
    /\ ui.pc = "unlock"
    /\ lock' = "none"
    /\ ui' = Idle
    /\ last' = [op |-> ui.op, pc |-> "unlock"]
    /\ cbCalls' = 0
    /\ reqs' = << >>
    /\ racy' = {}
    /\ UNCHANGED << connVars, resolverVars, sinkVars, sourceVars, dtor,
                    inflight, idxFresh >>

\* toggleSinkMute() / toggleSinkMute(bool): muted_ is written before the
\* lock is taken
toggleSinkMuteValue(form, mute) == IF form = "flip" THEN ~muted_ ELSE mute

\* toggleSourceMute() / toggleSourceMute(bool): the flip form negates muted_
toggleSourceMuteValue(form, mute) == IF form = "flip" THEN ~muted_ ELSE mute

MuteForms == { [form |-> "flip", mute |-> FALSE],
               [form |-> "set", mute |-> FALSE],
               [form |-> "set", mute |-> TRUE] }

toggleSinkMute(f) ==
    /\ CallerRuns
    /\ ui.pc = "idle"
    /\ muted_' = toggleSinkMuteValue(f.form, f.mute)
    /\ ui' = [pc |-> "lock", op |-> "toggleSinkMute"]
    /\ CallerObs([op |-> "toggleSinkMute", pc |-> "write", form |-> f.form,
                  mute |-> f.mute, ready |-> ~NotReady], { "muted_" })
    /\ UNCHANGED << connVars, resolverVars, pa_volume_, volume_, sink_idx_,
                    desc_, monitor_, port_name_, form_factor_, sourceVars,
                    lock, dtor, inflight, idxFresh >>

toggleSourceMute(f) ==
    /\ CallerRuns
    /\ ui.pc = "idle"
    /\ source_muted_' = toggleSourceMuteValue(f.form, f.mute)
    /\ ui' = [pc |-> "lock", op |-> "toggleSourceMute"]
    /\ CallerObs([op |-> "toggleSourceMute", pc |-> "write", form |-> f.form,
                  mute |-> f.mute, ready |-> ~NotReady],
                 IF f.form = "flip" THEN { "muted_", "source_muted_" }
                 ELSE { "source_muted_" })
    /\ UNCHANGED << connVars, resolverVars, sinkVars, default_source_name_,
                    source_volume_, source_idx_, source_desc_,
                    source_port_name_, lock, dtor, inflight, idxFresh >>

\* pa_context_set_sink_mute_by_index / pa_context_set_source_mute_by_index,
\* with no completion callback
toggleMuteSubmit ==
    /\ ~thrown
    /\ ui.pc = "submit"
    /\ ui.op \in { "toggleSinkMute", "toggleSourceMute" }
    /\ ui' = [pc |-> "unlock", op |-> ui.op]
    /\ last' = [op |-> ui.op, pc |-> "submit"]
    /\ cbCalls' = 0
    /\ reqs' = IF ui.op = "toggleSinkMute"
               THEN << [kind |-> "set_sink_mute_by_index", ctx |-> context_,
                        ready |-> ~NotReady, idx |-> sink_idx_,
                        mute |-> muted_] >>
               ELSE << [kind |-> "set_source_mute_by_index", ctx |-> context_,
                        ready |-> ~NotReady, idx |-> source_idx_,
                        mute |-> source_muted_] >>
    /\ racy' = IF lock = "ui" THEN {}
               ELSE { "context_", "sink_idx_", "muted_" }
    /\ UNCHANGED << connVars, resolverVars, sinkVars, sourceVars, lock, dtor,
                    inflight, idxFresh >>

(***************************************************************************)
(* ~AudioBackend, on the caller thread and without the mainloop lock.      *)
(***************************************************************************)
\* if (context_ != nullptr): the handle is read
dtorEnter ==
    /\ ~thrown
    /\ ui.pc = "idle"
    /\ dtor = "none"
    /\ dtor' = "entered"
    /\ ui' = [pc |-> "dtor", seen |-> context_]
    /\ CallerObs([op |-> "dtor", pc |-> "enter"], { "context_" })
    /\ UNCHANGED << connVars, resolverVars, sinkVars, sourceVars, lock,
                    inflight, idxFresh >>

\* pa_context_disconnect(context_): the handle passed is the one read by the
\* test or the one stored now (an unsynchronised read of context_).  A good
\* context becomes TERMINATED and contextStateCb quits the mainloop.
dtorDisconnect(h) ==
    /\ ~thrown
    /\ dtor = "entered"
    /\ h \in { ui.seen, context_ }
    /\ ctxState' = Disconnected(ctxState, h)
    /\ loopRunning' = IF h # 0 /\ IsGood(ctxState[h]) THEN FALSE
                      ELSE loopRunning
    /\ inflight' = { r \in inflight : r.ctx # h }
    /\ dtor' = "disconnected"
    /\ CallerObs([op |-> "dtor", pc |-> "disconnect", c |-> h],
                 { "context_" })
    /\ UNCHANGED << context_, thrown, resolverVars, sinkVars, sourceVars, ui,
                    lock, idxFresh >>

\* mainloop_api_->quit, pa_threaded_mainloop_stop, pa_threaded_mainloop_free
dtorStop ==
    /\ ~thrown
    /\ dtor = "disconnected"
    /\ loopRunning' = FALSE
    /\ dtor' = "done"
    /\ CallerObs([op |-> "dtor", pc |-> "stop"], {})
    /\ UNCHANGED << context_, ctxState, thrown, resolverVars, sinkVars,
                    sourceVars, ui, lock, inflight, idxFresh >>

(***************************************************************************)
(* Specifications.                                                         *)
(***************************************************************************)
LoopNext ==
    \/ \E i \in SinkInfos \cup { NullInfo } : sinkInfoCb(i)
    \/ \E i \in SourceInfos \cup { NullInfo } : sourceInfoCb(i)
    \/ \E i \in ServerInfos : serverInfoCb(i)
    \/ \E f \in Facilities, o \in EventTypes, x \in EventIndexes :
           subscribeCb(f, o, x)
    \/ \E r \in inflight, ok \in BOOLEAN : volumeModifyCb(r, ok)
    \/ contextStateCbProgress
    \/ \E allocOk \in BOOLEAN, connectOk \in BOOLEAN :
           contextStateCbFailed(allocOk, connectOk)

CallerNext ==
    \/ \E a \in AbsoluteCalls : changeVolumeCheck("setVolume", a)
    \/ \E a \in RelativeCalls : changeVolumeCheck("stepVolume", a)
    \/ changeVolumeValidate
    \/ changeVolumePrepare
    \/ mainloopLock
    \/ changeVolumeSubmit
    \/ \E f \in MuteForms : toggleSinkMute(f)
    \/ \E f \in MuteForms : toggleSourceMute(f)
    \/ toggleMuteSubmit
    \/ mainloopUnlock
    \/ dtorEnter
    \/ \E h \in 0..MaxContexts : dtorDisconnect(h)
    \/ dtorStop

Next == LoopNext \/ CallerNext

\* the whole program
Spec == Init /\ [][Next]_vars

\* The resolver: ServerInfo responses and sink descriptors in any order, on
\* connections that come up and fail.
ResolverNext ==
    \/ contextStateCbProgress
    \/ \E allocOk \in BOOLEAN, connectOk \in BOOLEAN :
           contextStateCbFailed(allocOk, connectOk)
    \/ \E i \in ServerInfos : serverInfoCb(i)
    \/ \E i \in SinkInfos \cup { NullInfo } : sinkInfoCb(i)

SpecResolver == Init /\ [][ResolverNext]_vars

\* The connection manager: the context's life cycle, the subscription and
\* the destructor.
ConnNext ==
    \/ contextStateCbProgress
    \/ \E allocOk \in BOOLEAN, connectOk \in BOOLEAN :
           contextStateCbFailed(allocOk, connectOk)
    \/ \E f \in Facilities, o \in EventTypes, x \in EventIndexes :
           subscribeCb(f, o, x)
    \/ \E i \in ServerInfos : serverInfoCb(i)
    \/ dtorEnter
    \/ \E h \in 0..MaxContexts : dtorDisconnect(h)
    \/ dtorStop

SpecConn == Init /\ [][ConnNext]_vars

\* The caller thread against the loop thread: every entry point and the
\* destructor, interleaved with the connection's life cycle and with the
\* callbacks that write the snapshot, the server reporting the sink X and
\* the sources S and T.
FewSinkInfos ==
    { i \in SinkInfos : /\ i.name = "X"
                        /\ i.state # "IDLE"
                        /\ i.volume.channels # 3 }

FewSourceInfos == { i \in SourceInfos : i.name = "S" \/ ~i.mute }

FewServerInfos ==
    { i \in ServerInfos : /\ i.default_sink_name = "X"
                          /\ i.default_source_name = "S" }

SnapshotNext ==
    \/ CallerNext
    \/ contextStateCbProgress
    \/ \E allocOk \in BOOLEAN, connectOk \in BOOLEAN :
           contextStateCbFailed(allocOk, connectOk)
    \/ \E r \in inflight, ok \in BOOLEAN : volumeModifyCb(r, ok)
    \/ \E i \in FewServerInfos : serverInfoCb(i)
    \/ \E i \in FewSinkInfos \cup { NullInfo } : sinkInfoCb(i)
    \/ \E i \in FewSourceInfos \cup { NullInfo } : sourceInfoCb(i)

SpecSnapshot == Init /\ [][SnapshotNext]_vars

\* The volume arithmetic: setVolume and stepVolume called, one call after
\* the other, on a Ready connection whose current sink X has been
\* delivered once with some channel volume, for a range of arguments.
\* Stored structures: one channel just below the value that rounds to 2
\* percent, two equal channels at 0, 5, 50 and 100 percent, two unequal
\* channels whose mean is 5 percent, three unequal channels whose mean is
\* 50 percent, and the structure pa_cvolume_valid rejects.
StoredVolumes ==
    { CVolumeUniform(1, PercentToNative(1) + 328),
      CVolumeUniform(2, PercentToNative(0)),
      CVolumeUniform(2, PercentToNative(5)),
      CVolumeUniform(2, PercentToNative(50)),
      CVolumeUniform(2, PercentToNative(100)),
      [channels |-> 2, values |-> << 0, PercentToNative(10) - 1 >>],
      [channels |-> 3,
       values |-> << PercentToNative(50) - 1000, PercentToNative(50),
                     PercentToNative(50) + 1000 >>],
      CVolumeInit }

Targets == { 0, 1, 33, 50, 100, 101, 150, 1000 }
Minimums == { 0, 10, 100 }
Maximums == { 0, 50, 100, 150, 1000 }
Steps == { 0, 1, 2, 5, 10, 100 }
StepMaximums == { 3, 50, 100, 150 }

\* std::clamp requires min_volume <= max_volume
VolumeAbsoluteCalls ==
    { c \in [volume : Targets, min_volume : Minimums, max_volume : Maximums] :
        c.min_volume <= c.max_volume }

VolumeRelativeCalls ==
    { [change_type |-> t, step |-> st, max_volume |-> hi] :
        t \in { "Increase", "Decrease" }, st \in Steps, hi \in StepMaximums }

\* the descriptor of X that carries the channel volume cv
DescriptorOfX(cv) ==
    LET dev == CHOOSE d \in SinkDevices : d.name = "X" IN
    [isNull |-> FALSE, name |-> dev.name, description |-> dev.description,
     index |-> dev.index, monitor_source_name |-> dev.monitor,
     active_port |-> dev.port, form_factor |-> dev.ff,
     state |-> "RUNNING", volume |-> cv, mute |-> FALSE]

\* the state after the first connection became Ready, serverInfoCb named X
\* and S the defaults and sinkInfoCb copied a Running descriptor of X
InitVolume ==
    /\ context_ = 1
    /\ ctxState = [c \in Contexts |-> IF c = 1 THEN "READY" ELSE "NONE"]
    /\ loopRunning = TRUE
    /\ thrown = FALSE
    /\ current_sink_name_ = "X"
    /\ default_sink_name = "X"
    /\ default_sink_running_ = TRUE
    /\ current_sink_running_ = TRUE
    /\ \E cv \in StoredVolumes :
          LET i == DescriptorOfX(cv) IN
          /\ pa_volume_ = IF pa_cvolume_valid(cv) THEN cv ELSE CVolumeInit
          /\ volume_ = IF pa_cvolume_valid(cv)
                       THEN VolumePercent(pa_cvolume_avg(cv)) ELSE 0
          /\ sink_idx_ = IF pa_cvolume_valid(cv) THEN i.index ELSE 0
          /\ idxFresh = [sink |-> pa_cvolume_valid(cv), source |-> FALSE]
          /\ muted_ = i.mute
          /\ desc_ = i.description
          /\ monitor_ = i.monitor_source_name
          /\ port_name_ = PortName(i)
          /\ form_factor_ = FormFactor(i)
          /\ last = [op |-> "sinkInfoCb", i |-> i]
    /\ default_source_name_ = "S"
    /\ source_volume_ = 0
    /\ source_idx_ = 0
    /\ source_muted_ = FALSE
    /\ source_desc_ = ""
    /\ source_port_name_ = ""
    /\ ui = Idle
    /\ lock = "none"
    /\ dtor = "none"
    /\ cbCalls = on_updated_cb_(0)
    /\ reqs = << >>
    /\ racy = {}
    /\ inflight = {}

VolumeNext ==
    \/ \E a \in VolumeAbsoluteCalls : changeVolumeCheck("setVolume", a)
    \/ \E a \in VolumeRelativeCalls : changeVolumeCheck("stepVolume", a)
    \/ changeVolumeValidate
    \/ changeVolumePrepare
    \/ mainloopLock
    \/ changeVolumeSubmit
    \/ mainloopUnlock

SpecVolume == InitVolume /\ [][VolumeNext]_vars

\* The answer to a set-volume request against a change of the current
\* sink: setVolume calls and their answers, interleaved with ServerInfo
\* responses that name X or Y the default and with the Running descriptors
\* of X and Y.
RefetchSinkInfos ==
    { i \in SinkInfos : /\ i.name \in { "X", "Y" }
                        /\ i.state = "RUNNING"
                        /\ i.volume = CVolumeUniform(2, PercentToNative(33))
                        /\ ~i.mute }

RefetchServerInfos ==
    { i \in ServerInfos : /\ i.default_sink_name \in { "X", "Y" }
                          /\ i.default_source_name = "S" }

RefetchNext ==
    \/ contextStateCbProgress
    \/ \E a \in AbsoluteCalls : changeVolumeCheck("setVolume", a)
    \/ changeVolumeValidate
    \/ changeVolumePrepare
    \/ mainloopLock
    \/ changeVolumeSubmit
    \/ mainloopUnlock
    \/ \E r \in inflight, ok \in BOOLEAN : volumeModifyCb(r, ok)
    \/ \E i \in RefetchServerInfos : serverInfoCb(i)
    \/ \E i \in RefetchSinkInfos : sinkInfoCb(i)

SpecRefetch == Init /\ [][RefetchNext]_vars

(***************************************************************************)
(* Properties.                                                             *)
(***************************************************************************)
\* CurrentDeviceState of the output and of the input device
OutputSnapshot ==
    << current_sink_name_, sink_idx_, volume_, muted_, desc_, port_name_,
       form_factor_ >>
InputSnapshot ==
    << default_source_name_, source_idx_, source_volume_, source_muted_,
       source_desc_, source_port_name_ >>

\* the descriptions of the server's device of that name
DescriptionsOf(name) ==
    { dev.description : dev \in { d \in SinkDevices : d.name = name } }

\* the last step delivered a sink descriptor, last.i, to sinkInfoCb
SinkDelivered == last.op = "sinkInfoCb" /\ ~last.i.isNull

\* C1 as stated: the current output device is never a device whose
\* description is in the ignore list.  A ServerInfo response that declares
\* such a device the default makes it the current one.
C1_CurrentNeverIgnored ==
    DescriptionsOf(current_sink_name_) \cap ignored_sinks_ = {}

\* C1 amended: sinkInfoCb never adopts a descriptor whose description is in
\* the ignore list and copies no snapshot field from it, it invokes no
\* update callback for it, and when such a descriptor names the current
\* device, current-is-running is false afterwards; this holds even when the
\* device is the declared default, is Running and no other device is known.
C1_IgnoredNeverAdopted ==
    [][ (SinkDelivered' /\ last'.i.description \in ignored_sinks_)
        => /\ UNCHANGED << current_sink_name_, sinkVars >>
           /\ cbCalls' = 0
           /\ (last'.i.name = current_sink_name_ => ~current_sink_running_')
      ]_vars

\* C1 witness: a Running descriptor of the ignored device M was delivered
\* while M is the declared default and the current device, and nothing of
\* it is in the snapshot.
C1_Witness ==
    /\ SinkDelivered
    /\ last.i.description \in ignored_sinks_
    /\ last.i.state = "RUNNING"
    /\ last.i.name = default_sink_name
    /\ last.i.name = current_sink_name_
    /\ ~current_sink_running_
    /\ desc_ # last.i.description

\* C2 as stated: when the current device is not Running/Idle (its last
\* descriptor said so) and a descriptor of another, non-ignored device that
\* is Running or Idle is delivered, that device becomes the current one and
\* its fields are copied, whether or not it is the declared default.
C2_FallbackAdopted ==
    [][ ( /\ current_sink_name_ # ""
          /\ ~current_sink_running_
          /\ SinkDelivered
          /\ last.i.name = current_sink_name_
          /\ last.i.state = "SUSPENDED"
          /\ SinkDelivered'
          /\ last'.i.name # current_sink_name_
          /\ last'.i.description \notin ignored_sinks_
          /\ last'.i.state \in { "RUNNING", "IDLE" } )
        => /\ current_sink_name_' = last'.i.name
           /\ current_sink_running_'
           /\ desc_' = last'.i.description
           /\ muted_' = last'.i.mute ]_vars

\* the mean of the channels of cv is exactly p percent in native units
AveragesTo(cv, p) ==
    SumValues(cv.values, cv.channels) = cv.channels * ((p * PA_VOLUME_NORM) \div 100)

\* C3: once a ServerInfo response has named X the default output, the
\* delivery of a non-ignored descriptor named X, Running or Idle, whose
\* valid channel volume averages p percent leaves volume_ = p and
\* current-is-running true and invokes the update callback exactly once.
C3_DefaultDelivery ==
    [][ ( /\ SinkDelivered'
          /\ default_sink_name # ""
          /\ last'.i.name = default_sink_name
          /\ last'.i.description \notin ignored_sinks_
          /\ last'.i.state \in { "RUNNING", "IDLE" }
          /\ last'.i.volume.channels \in 1..PA_CHANNELS_MAX
          /\ \A k \in 1..last'.i.volume.channels :
                 last'.i.volume.values[k] <= PA_VOLUME_MAX )
        => \A p \in 0..100 :
             AveragesTo(last'.i.volume, p)
             => /\ volume_' = p
                /\ current_sink_running_'
                /\ cbCalls' = 1 ]_vars

\* C3 witness: the default device's Idle descriptor at 50 percent was
\* delivered and the snapshot shows 50.
C3_Witness ==
    /\ SinkDelivered
    /\ last.i.name = default_sink_name
    /\ last.i.state = "IDLE"
    /\ AveragesTo(last.i.volume, 50)
    /\ volume_ = 50
    /\ current_sink_running_
    /\ cbCalls = 1

\* the connection is Ready
ConnectionReady == context_ # 0 /\ ctxState[context_] = "READY"

\* C4 as stated: a field of CurrentDeviceState (output or input) changes
\* only in a step taken while the connection is Ready.
C4_SnapshotOnlyWhenReady ==
    [][ << OutputSnapshot, InputSnapshot >>' # << OutputSnapshot, InputSnapshot >>
        => ConnectionReady ]_vars

\* C5 as stated: every set-volume request of setVolume / stepVolume is
\* submitted on a connection that is Ready at that moment, and a call that
\* finds the connection not Ready returns without a request.
C5_SubmittedOnReady ==
    /\ \A k \in DOMAIN reqs :
           reqs[k].kind = "set_sink_volume_by_index" => reqs[k].ready
    /\ (last.op \in { "setVolume", "stepVolume" } /\ last.pc = "check"
        /\ last.returned)
       => (reqs = << >> /\ ui.pc = "idle")

\* C6 as stated: whenever the connection enters Failed while the backend is
\* not being torn down, a handle that did not exist before is created and
\* is Connecting; whenever a connection becomes Ready, a ServerInfo fetch
\* and a subscription to the five change classes are issued on it.
C6_ReconnectOnFailed ==
    [][ /\ ( /\ last'.op = "contextStateCb"
             /\ last'.state = "FAILED"
             /\ ~last'.tearing )
           => /\ context_' \in Contexts
              /\ context_' # last'.c
              /\ ctxState[context_'] = "NONE"
              /\ ctxState'[context_'] = "CONNECTING"
        /\ (last'.op = "contextStateCb" /\ last'.state = "READY")
           => /\ \E k \in DOMAIN reqs' :
                    /\ reqs'[k].kind = "get_server_info"
                    /\ reqs'[k].ctx = last'.c
              /\ \E k \in DOMAIN reqs' :
                    /\ reqs'[k].kind = "subscribe"
                    /\ reqs'[k].ctx = last'.c
                    /\ reqs'[k].mask = { "SERVER", "SINK", "SINK_INPUT",
                                         "SOURCE", "SOURCE_OUTPUT" } ]_vars

\* C7 as stated: once the destructor has begun, no step creates a
\* connection handle.
C7_NoReconnectInTeardown ==
    [][ dtor # "none" => Created' \subseteq Created ]_vars

\* C8 as stated: no exception leaves a callback of the loop thread.
C8_NothingThrown == ~thrown

\* C9 as stated: every step that changes a field of CurrentDeviceState
\* invokes the update callback, once.
C9_EveryChangeNotifies ==
    [][ << OutputSnapshot, InputSnapshot >>' # << OutputSnapshot, InputSnapshot >>
        => cbCalls' = 1 ]_vars

\* C9 amended: every sinkInfoCb / sourceInfoCb step that changes a field of
\* CurrentDeviceState invokes the update callback exactly once in that
\* step; the toggleMute forms and serverInfoCb, which change the mute flags
\* and the current device name, invoke none.
C9_DescriptorChangeNotifies ==
    [][ /\ ( /\ last'.op \in { "sinkInfoCb", "sourceInfoCb" }
             /\ << OutputSnapshot, InputSnapshot >>'
                    # << OutputSnapshot, InputSnapshot >> )
           => cbCalls' = 1
        /\ last'.op \in { "serverInfoCb", "toggleSinkMute", "toggleSourceMute" }
           => cbCalls' = 0 ]_vars

\* C9 witness: a sink descriptor set the mute flag and the callback ran.
C9_Witness ==
    /\ SinkDelivered
    /\ last.i.mute
    /\ muted_
    /\ desc_ = last.i.description
    /\ cbCalls = 1

\* C10 as stated: every access of an entry point to the snapshot or to the
\* connection handle is made with the mainloop lock held, and the lock is
\* released when the entry point has returned.
C10_AccessUnderLock ==
    /\ last.op \in { "setVolume", "stepVolume", "toggleSinkMute",
                     "toggleSourceMute" }
       => racy = {}
    /\ ui.pc = "idle" => lock = "none"

\* the request was made with the stored index of the sink / of the source
UsesSinkIndex(rq) ==
    \/ rq.kind \in { "set_sink_volume_by_index", "set_sink_mute_by_index" }
    \/ (rq.kind = "get_sink_info_by_index" /\ last.op = "volumeModifyCb")
UsesSourceIndex(rq) == rq.kind = "set_source_mute_by_index"

\* C11 as stated: on a connection made after a Failed one (a handle other
\* than the first), every request that addresses a device by a stored
\* index some descriptor has set (the devices' indexes are not 0) --
\* set-volume, set-mute, the get-info-by-index of volumeModifyCb -- is
\* submitted only after a descriptor delivered on that connection has
\* stored the index.
C11_NoStaleIndex ==
    \A k \in DOMAIN reqs :
        (reqs[k].ready /\ reqs[k].ctx # 1 /\ reqs[k].idx # 0)
        => /\ UsesSinkIndex(reqs[k]) => idxFresh.sink
           /\ UsesSourceIndex(reqs[k]) => idxFresh.source

\* the percentage a descriptor carrying the channel volume cv is shown as
Rederived(cv) == VolumePercent(pa_cvolume_avg(cv))

\* a valid structure is stored and volume_ is its rounded average
StoredAveragesCurrent == StoredValid /\ volume_ = Rederived(pa_volume_)

\* the last step submitted the set-volume request of stepVolume(t, ...)
StepSubmitted(t) ==
    /\ last.op = "stepVolume"
    /\ last.pc = "submit"
    /\ last.args.change_type = t
    /\ Len(reqs) = 1

\* C12 as stated: for every valid stored structure whose rounded average is
\* the current volume, every step >= 0 and every max with current <= max,
\* the values stepVolume(Increase, step, max) submits re-derive to a
\* percentage that is at most max.
C12_IncreaseWithinMax ==
    ( /\ StepSubmitted("Increase")
      /\ StoredAveragesCurrent
      /\ volume_ <= last.args.max_volume )
    => Rederived(reqs[1].volume) <= last.args.max_volume

\* stepVolume(Increase) is called with the current volume at or above max,
\* or stepVolume(Decrease) with the current volume at 0
AtBoundary(args) ==
    \/ (args.change_type = "Increase" /\ volume_ >= args.max_volume)
    \/ (args.change_type = "Decrease" /\ volume_ = 0)

\* the stepVolume call with arguments args has gone past its computation
\* towards a request
StepProceeds ==
    /\ ui.pc \in { "lock", "submit" }
    /\ ui.op = "stepVolume"

\* C13 as stated: on a Ready connection, whatever structure is stored,
\* stepVolume(Increase) with current >= max and stepVolume(Decrease) with
\* current = 0 return without a request.
C13_BoundaryNoRequest ==
    /\ (StepProceeds /\ ConnectionReady) => ~AtBoundary(ui.args)
    /\ (last.op = "stepVolume" /\ last.pc = "submit" /\ ConnectionReady
        /\ AtBoundary(last.args)) => reqs = << >>

\* C13 amended: on a Ready connection with a valid structure stored,
\* stepVolume(Increase) with current >= max and stepVolume(Decrease) with
\* current = 0 return without a request; with no valid structure stored
\* stepVolume submits the two-channel default at the current percentage
\* whatever the direction and the boundary.
C13_BoundaryNoRequestWhenValid ==
    /\ (StepProceeds /\ ConnectionReady /\ StoredValid) => ~AtBoundary(ui.args)
    /\ (last.op = "stepVolume" /\ last.pc = "prepare" /\ ConnectionReady
        /\ StoredValid /\ AtBoundary(last.args))
       => (last.returned /\ ui.pc = "idle" /\ reqs = << >>)
    /\ (last.op = "stepVolume" /\ last.pc = "submit" /\ ~StoredValid)
       => /\ Len(reqs) = 1
          /\ reqs[1].volume = CVolumeUniform(2, PercentToNative(volume_))

\* C13 witness: stepVolume(Increase) returned from its computation with a
\* valid structure stored and the current volume equal to max.
C13_Witness ==
    /\ last.op = "stepVolume"
    /\ last.pc = "prepare"
    /\ last.args.change_type = "Increase"
    /\ StoredValid
    /\ volume_ = last.args.max_volume
    /\ last.returned
    /\ ui.pc = "idle"

\* C14 as stated: for every valid stored structure whose rounded average is
\* the current volume c > 0 and every step >= c, the values
\* stepVolume(Decrease, step, max) submits re-derive to 0 percent.
C14_DecreaseToZero ==
    ( /\ StepSubmitted("Decrease")
      /\ StoredAveragesCurrent
      /\ volume_ > 0
      /\ last.args.step >= volume_ )
    => Rederived(reqs[1].volume) = 0

\* the last step submitted the set-volume request of setVolume
SetSubmitted ==
    /\ last.op = "setVolume"
    /\ last.pc = "submit"
    /\ Len(reqs) = 1

\* C15: for target, min <= max, the native value setVolume(target, min,
\* max) writes to every channel, converted back as sinkInfoCb converts a
\* descriptor's volume, lies in [min, max] and is within 1 of
\* clamp(target, min, max), whatever structure is stored.
C15_SetVolumeRoundTrip ==
    SetSubmitted
    => LET a == last.args
           cv == reqs[1].volume
           want == IF a.volume < a.min_volume THEN a.min_volume
                   ELSE IF a.volume > a.max_volume THEN a.max_volume
                   ELSE a.volume
       IN /\ cv.channels > 0
          /\ \A k \in 1..cv.channels :
                /\ VolumePercent(cv.values[k]) >= a.min_volume
                /\ VolumePercent(cv.values[k]) <= a.max_volume
                /\ VolumePercent(cv.values[k]) - want \in { -1, 0, 1 }
          /\ Rederived(cv) >= a.min_volume
          /\ Rederived(cv) <= a.max_volume
          /\ Rederived(cv) - want \in { -1, 0, 1 }

\* C15 witness: setVolume(101, 10, 100) on a stored structure of three
\* channels submitted three channels that convert back to 100.
C15_Witness ==
    /\ SetSubmitted
    /\ last.args = [volume |-> 101, min_volume |-> 10, max_volume |-> 100]
    /\ reqs[1].volume.channels = 3
    /\ Rederived(reqs[1].volume) = 100

\* C16 as stated: every set-volume request of setVolume / stepVolume
\* carries a channel count that is not 0 and, on each of its channels, a
\* value that is at most PA_VOLUME_MAX, in every reachable state.
C16_RequestVolumeValid ==
    \A k \in DOMAIN reqs :
        reqs[k].kind = "set_sink_volume_by_index"
        => /\ reqs[k].volume.channels > 0
           /\ DOMAIN reqs[k].volume.values = 1..reqs[k].volume.channels
           /\ \A c \in 1..reqs[k].volume.channels :
                  reqs[k].volume.values[c] <= PA_VOLUME_MAX

\* the last step was the server's answer to the set-volume request last.r
VolumeAnswered(success) ==
    /\ last.op = "volumeModifyCb"
    /\ last.success = success

\* C17 as stated: on success exactly one get-info-by-index request is
\* issued, for the index the answered set-volume request was submitted
\* with, even when the stored index changed in between; on failure no
\* request is issued.
C17_RefetchSubmittedIndex ==
    /\ VolumeAnswered(TRUE)
       => /\ Len(reqs) = 1
          /\ reqs[1].kind = "get_sink_info_by_index"
          /\ reqs[1].idx = last.r.idx
    /\ VolumeAnswered(FALSE) => reqs = << >>

\* C17 amended: on success exactly one get-info-by-index request is
\* issued, on the current connection and for the index stored for the
\* current sink when the answer arrives, which is not the index of the
\* answered request when a descriptor stored another one in between; on
\* failure no request is issued.
C17_RefetchCurrentIndex ==
    /\ VolumeAnswered(TRUE)
       => /\ Len(reqs) = 1
          /\ reqs[1].kind = "get_sink_info_by_index"
          /\ reqs[1].ctx = context_
          /\ reqs[1].ready
          /\ reqs[1].idx = sink_idx_
    /\ VolumeAnswered(FALSE) => reqs = << >>

\* C17 witness: the request was submitted with the index of X, the default
\* changed to Y and Y's descriptor was copied, and the success answer
\* re-fetched the index of Y.
C17_Witness ==
    /\ VolumeAnswered(TRUE)
    /\ last.r.idx = 1
    /\ current_sink_name_ = "Y"
    /\ sink_idx_ = 2
    /\ Len(reqs) = 1
    /\ reqs[1].idx = 2

\* C18 as stated: the flip form of toggleSourceMute sets source_muted_ to
\* the negation of its own previous value, whatever muted_ is, and leaves
\* muted_ unchanged; the set-mute request that follows is one request for
\* the source and carries source_muted_.
C18_FlipNegatesInput ==
    [][ /\ ( /\ last'.op = "toggleSourceMute"
             /\ last'.pc = "write"
             /\ last'.form = "flip" )
           => /\ source_muted_' = ~source_muted_
              /\ muted_' = muted_
        /\ (last'.op = "toggleSourceMute" /\ last'.pc = "submit")
           => /\ Len(reqs') = 1
              /\ reqs'[1].kind = "set_source_mute_by_index"
              /\ reqs'[1].mute = source_muted_' ]_vars

C20_IndexOfCopiedDescriptor ==
    [][ (SinkDelivered' /\ cbCalls' = 1 /\ desc_' = last'.i.description)
        => sink_idx_' = last'.i.index ]_vars

====
